---- MODULE Spec2Model ----
(***************************************************************************)
(* The client-side conversation synchronization engine of the chat client: *)
(* AppStateProvider (frontend/src/hooks/useAppState.tsx), the typing       *)
(* handlers of ChatArea and the selection handlers of ChatInterface.       *)
(*                                                                         *)
(* A User object is reduced to its username (the endpoints never enter a   *)
(* decision of the engine).  A React commit and the effects it schedules   *)
(* are one step.  The reactions field of a message is carried verbatim by  *)
(* the code and read by no decision, so it is left out.                    *)
(***************************************************************************)
EXTENDS Integers, Sequences, FiniteSets, TLC

(* ------------------------------ bounds -------------------------------- *)
MaxSends == 1       \* optimistic entries held in the store at once
MaxBatch == 2       \* longest fetched batch explored
MaxInFlight == 2    \* most fetches outstanding at once
MaxTimers == 2      \* interval handles the browser hands out
MaxRequests == 2    \* join / leave / get-list requests outstanding at once

Users == {"alice", "bob"}              \* identities that register
ChannelNames == {"general", "bob"}     \* channel names; "bob" collides with a peer
Keys == Users \cup ChannelNames
Bodies == {"hi"}
ServerTimes == {1}                     \* timestamps of fetched records
ClockTimes == {1, 2}                   \* values of new Date() at send time
TimerIds == 1..MaxTimers

NoUser == "<null>"
NoTag == "<none>"       \* channel undefined, null or '' (all falsy)
NoTimer == 0
NoKey == "<nokey>"

\* What the pending-messages endpoint may return: every sender with no
\* tag, the tag 'direct' and a channel tag; a record whose channel tag is
\* its sender's username; a record for which no target can be determined.
Records ==
    [from : Users, message : Bodies, time : ServerTimes,
     channel : {NoTag, "direct", "general"}]
    \cup {[from |-> "bob", message |-> "hi", time |-> 1, channel |-> "bob"]}
    \cup {[from |-> "", message |-> "hi", time |-> 1, channel |-> NoTag]}

RECURSIVE SeqsUpTo(_, _)
SeqsUpTo(S, n) ==
    IF n = 0 THEN {<<>>}
    ELSE LET shorter == SeqsUpTo(S, n - 1)
         IN  shorter \cup {Append(s, x) : s \in {t \in shorter : Len(t) = n - 1}, x \in S}

Batches == SeqsUpTo(Records, MaxBatch)
Singles == {b \in Batches : Len(b) <= 1}

VARIABLES
    currentUser,          \* useState<User | null>
    messages,             \* useState<Record<string, Message[]>>
    lastReadPositions,    \* useState<Record<string, number>>
    typingUsers,          \* useState<Record<string, Set<string>>>
    messagePollInterval,  \* useState<NodeJS.Timeout | null>
    effectInterval,       \* `interval` held by the polling effect's cleanup
    intervals,            \* live setInterval timers: {[id, user]}
    inflight,             \* outstanding get-messages fetches, by captured user
    currentChannel,       \* ChatInterface useState
    currentPeer,          \* ChatInterface useState
    typingTimeoutRef,     \* ChatArea useRef: pending setTimeout, or NoTimeout
    notified,             \* dispatcher calls made by the step just taken
    cycle,                \* summary of the merge done by the step just taken
    dispatched,           \* records dispatched so far in this session
    channels,             \* useState<string[]>
    peers,                \* useState<Peer[]>, as the set of usernames
    pending,              \* outstanding join / leave / get-list requests
    outbox                \* remote send calls: outstanding, and whether one failed

vars == <<currentUser, messages, lastReadPositions, typingUsers,
          messagePollInterval, effectInterval, intervals, inflight,
          currentChannel, currentPeer, typingTimeoutRef,
          notified, cycle, dispatched, channels, peers, pending, outbox>>

Empty == [k \in {} |-> <<>>]
NoCycle == [user |-> NoUser, deduped |-> FALSE, skipped |-> FALSE, failed |-> FALSE,
            dropped |-> FALSE]
NoSends == [sending |-> 0, failed |-> FALSE]
NoTimeout == [target |-> NoKey, user |-> NoUser]

Put(f, k, v) == [x \in (DOMAIN f) \cup {k} |-> IF x = k THEN v ELSE f[x]]
Del(f, k) == [x \in (DOMAIN f) \ {k} |-> f[x]]
Get(f, k, d) == IF k \in DOMAIN f THEN f[k] ELSE d

(* ------------------------- the merge of a poll ------------------------ *)
\* useAppState.tsx:468  msg.channel === 'direct' || !msg.channel
IsDirect(msg) == msg.channel = "direct" \/ msg.channel = NoTag

\* faulty variant: only untagged records count as the own echo
SkipSelf_UntaggedOnly(msg, user) == msg.channel = NoTag /\ msg.from = user

\* useAppState.tsx:473-475  self-sent direct records are skipped
SkipSelf(msg, user) == IsDirect(msg) /\ msg.from = user

\* faulty variant: every tag, 'direct' included, is taken as a channel name
Target_TagFirst(msg, user) == IF msg.channel # NoTag THEN msg.channel ELSE msg.from

\* faulty variant: every record is filed under its sender
Target_BySender(msg, user) == msg.from

\* useAppState.tsx:467-483  target key of a record that is not skipped
Target(msg, user) == IF IsDirect(msg) THEN msg.from ELSE msg.channel

\* faulty variant: nothing is ever found present
Exists_Never(seq, msg) == FALSE

\* faulty variant: only the newest entry is compared
Exists_LastOnly(seq, msg) ==
    /\ seq # <<>>
    /\ seq[Len(seq)].from = msg.from
    /\ seq[Len(seq)].message = msg.message
    /\ seq[Len(seq)].time = msg.time

\* useAppState.tsx:495-497  findIndex(...) !== -1
Exists(seq, msg) ==
    \E i \in DOMAIN seq :
        /\ seq[i].from = msg.from
        /\ seq[i].message = msg.message
        /\ seq[i].time = msg.time

\* useAppState.tsx:501-508  the entry pushed for a fetched record
Stored(msg, user) ==
    [from |-> msg.from, message |-> msg.message, time |-> msg.time,
     channel |-> msg.channel, sent |-> (msg.from = user)]

\* useAppState.tsx:368-374  the entry appended by sendMessage
Optimistic(user, text, now) ==
    [from |-> user, message |-> text, time |-> now,
     channel |-> NoTag, sent |-> TRUE]

\* useAppState.tsx:511-520  the dispatcher call for an appended record
Note(target, msg) ==
    [target |-> target, from |-> msg.from, message |-> msg.message, time |-> msg.time]

\* faulty variant: the sender is not looked at
ShouldNotify_Always(msg, user) == TRUE

\* useAppState.tsx:511  if (msg.from !== currentUser.username)
ShouldNotify(msg, user) == msg.from # user

\* faulty variant: no check that a target was found
MergeOne_NoGuard(acc, msg, user) ==
    IF SkipSelf(msg, user) THEN [acc EXCEPT !.skips = @ + 1]
    ELSE LET target == Target(msg, user)
             seq == Get(acc.store, target, <<>>)
         IN  IF Exists(seq, msg)
             THEN [acc EXCEPT !.store = Put(acc.store, target, seq), !.dups = @ + 1]
             ELSE [acc EXCEPT
                     !.store = Put(acc.store, target, Append(seq, Stored(msg, user))),
                     !.notes = IF ShouldNotify(msg, user)
                               THEN Append(@, Note(target, msg)) ELSE @]

\* useAppState.tsx:464-522  the body of data.messages.forEach
\* acc = [store, notes, dups, skips, drops]
MergeOne(acc, msg, user) ==
    IF SkipSelf(msg, user) THEN [acc EXCEPT !.skips = @ + 1]
    ELSE LET target == Target(msg, user) IN
         IF target = "" THEN [acc EXCEPT !.drops = @ + 1]
         ELSE LET seq == Get(acc.store, target, <<>>) IN
              IF Exists(seq, msg)
              THEN [acc EXCEPT !.store = Put(acc.store, target, seq),
                               !.dups = @ + 1]
              ELSE [acc EXCEPT
                      !.store = Put(acc.store, target, Append(seq, Stored(msg, user))),
                      !.notes = IF ShouldNotify(msg, user)
                                THEN Append(@, Note(target, msg)) ELSE @]

\* useAppState.tsx:462-524  the setMessages updater of one cycle
RECURSIVE MergeFrom(_, _, _)
MergeFrom(acc, batch, user) ==
    IF batch = <<>> THEN acc
    ELSE MergeFrom(MergeOne(acc, Head(batch), user), Tail(batch), user)

Merge(store, batch, user) ==
    MergeFrom([store |-> store, notes |-> <<>>, dups |-> 0, skips |-> 0, drops |-> 0],
              batch, user)

(* --------------------------- derived values --------------------------- *)
\* useAppState.tsx:102-114  unreadCounts[target]
UnreadIn(store, positions, user, target) ==
    LET targetMessages == Get(store, target, <<>>)
        lastRead == Get(positions, target, 0)
    IN  Cardinality({i \in DOMAIN targetMessages :
            /\ ~(targetMessages[i].from = user \/ targetMessages[i].sent)
            /\ i - 1 >= lastRead})

UnreadCount(target) == UnreadIn(messages, lastReadPositions, currentUser, target)

\* faulty variant: the set is kept when its last member leaves
SetTyping_NoPrune(reg, target, isTyping, user) ==
    LET name == IF user = NoUser THEN "" ELSE user
        old == Get(reg, target, {})
    IN  Put(reg, target, IF isTyping THEN old \cup {name} ELSE old \ {name})

\* useAppState.tsx:303-323  the setTypingUsers updater
SetTyping(reg, target, isTyping, user) ==
    LET name == IF user = NoUser THEN "" ELSE user
        old == Get(reg, target, {})
        new == IF isTyping THEN old \cup {name} ELSE old \ {name}
    IN  IF new = {} THEN Del(reg, target) ELSE Put(reg, target, new)

(* ------------------------------- timers ------------------------------- *)
ClearInterval(ivs, id) == {t \in ivs : t.id # id}

\* faulty variant: the effect returns no cleanup
PollEffectCleanup_None(ivs) == ivs

\* useAppState.tsx:533-535  the cleanup returned by the polling effect
PollEffectCleanup(ivs) == ClearInterval(ivs, effectInterval)

\* the handle setInterval returns: one that names no live timer and is not
\* the handle still held in messagePollInterval
FreeTimerIds(ivs) ==
    {i \in TimerIds : i # messagePollInterval /\ \A t \in ivs : t.id # i}
NewTimerId(ivs) == CHOOSE i \in FreeTimerIds(ivs) : \A j \in FreeTimerIds(ivs) : i <= j

\* useAppState.tsx:444,529  setInterval(async () => ..., 2000)
StartPolling(ivs, user) == ivs \cup {[id |-> NewTimerId(ivs), user |-> user]}

\* entries written by sendMessage (no channel field, sent: true)
OptimisticCount(store) ==
    LET n[ks \in SUBSET Keys] ==
            IF ks = {} THEN 0
            ELSE LET k == CHOOSE x \in ks : TRUE
                     here == IF k \in DOMAIN store
                             THEN Cardinality({i \in DOMAIN store[k] :
                                     store[k][i].channel = NoTag /\ store[k][i].sent})
                             ELSE 0
                 IN  here + n[ks \ {k}]
    IN  n[Keys]

\* keys the UI offers: the roster without the own username
\* (useAppState.tsx:347) and the channel names
SendTargets(user) == (Users \ {user}) \cup ChannelNames

\* ChatArea.tsx:23  target = currentPeer || currentChannel
ViewTarget(peer, channel) == IF peer # NoKey THEN peer ELSE channel

\* ChatArea.tsx:35-39 with useAppState.tsx:282-285: the effect that marks
\* the viewed conversation read; it runs again whenever the target or the
\* store object has changed
ViewEffect(store, positions, target) ==
    IF target = NoKey THEN positions
    ELSE Put(positions, target, Len(Get(store, target, <<>>)))

InFlightCount == inflight["alice"] + inflight["bob"]

(* ------------------------------ the state ----------------------------- *)
Init ==
    /\ currentUser = NoUser
    /\ messages = Empty
    /\ lastReadPositions = Empty
    /\ typingUsers = Empty
    /\ messagePollInterval = NoTimer
    /\ effectInterval = NoTimer
    /\ intervals = {}
    /\ inflight = [u \in Users |-> 0]
    /\ currentChannel = NoKey
    /\ currentPeer = NoKey
    /\ typingTimeoutRef = NoTimeout
    /\ notified = <<>>
    /\ cycle = NoCycle
    /\ dispatched = {}
    /\ channels = <<>>
    /\ peers = {}
    /\ pending = {}
    /\ outbox = NoSends

Quiet == notified' = <<>> /\ cycle' = NoCycle
UIVars == <<currentChannel, currentPeer, typingUsers, typingTimeoutRef>>
TimerVars == <<messagePollInterval, effectInterval, intervals>>
RosterVars == <<channels, peers, pending>>

\* useAppState.tsx:173-181 registerPeer resolving, then the polling effect
\* (435-536) of the commit that sees the new currentUser: the cleanup of
\* the previous run, then setInterval and setMessagePollInterval
RegisterPeer(u) ==
    /\ FreeTimerIds(PollEffectCleanup(intervals)) # {}
    /\ currentUser' = u
    /\ LET cleaned == PollEffectCleanup(intervals)
           id == NewTimerId(cleaned)
       IN  /\ intervals' = StartPolling(cleaned, u)
           /\ effectInterval' = id
           /\ messagePollInterval' = id
    /\ Quiet
    /\ UNCHANGED <<messages, lastReadPositions, inflight, dispatched, UIVars,
                   RosterVars, outbox>>

\* faulty variant: logout forgets the roster
Logout_KeepsPeers ==
    /\ currentUser # NoUser
    /\ currentUser' = NoUser
    /\ messages' = Empty
    /\ lastReadPositions' = Empty
    /\ typingUsers' = Empty
    /\ intervals' = {}
    /\ messagePollInterval' = NoTimer
    /\ effectInterval' = NoTimer
    /\ currentChannel' = NoKey
    /\ currentPeer' = NoKey
    /\ typingTimeoutRef' = NoTimeout
    /\ dispatched' = {}
    /\ notified' = <<>> /\ cycle' = NoCycle
    /\ channels' = <<>>
    /\ UNCHANGED <<peers, inflight, pending, outbox>>

\* useAppState.tsx:287-301 logout, then the polling effect's cleanup and
\* early return (436-442), and ChatPage unmounting ChatInterface and
\* ChatArea (useAppState.tsx:626-628, ChatArea.tsx:97-103)
Logout ==
    /\ currentUser # NoUser
    /\ currentUser' = NoUser
    /\ messages' = Empty
    /\ lastReadPositions' = Empty
    /\ typingUsers' = Empty
    /\ intervals' = PollEffectCleanup(ClearInterval(intervals, messagePollInterval))
    /\ messagePollInterval' = NoTimer
    /\ effectInterval' = NoTimer
    /\ currentChannel' = NoKey
    /\ currentPeer' = NoKey
    /\ typingTimeoutRef' = NoTimeout
    /\ dispatched' = {}
    /\ Quiet
    /\ channels' = <<>>
    /\ peers' = {}
    /\ UNCHANGED <<inflight, pending, outbox>>

\* useAppState.tsx:444-458  a tick of a live interval issues the fetch
Tick(t) ==
    /\ t \in intervals
    /\ InFlightCount < MaxInFlight
    /\ inflight' = [inflight EXCEPT ![t.user] = @ + 1]
    /\ Quiet
    /\ UNCHANGED <<RosterVars, outbox, currentUser, messages, lastReadPositions, dispatched,
                   TimerVars, UIVars>>

\* faulty variant: a failed cycle stops the timer that issued it
PollFail_Stops(u) ==
    /\ inflight[u] > 0
    /\ inflight' = [inflight EXCEPT ![u] = @ - 1]
    /\ notified' = <<>>
    /\ cycle' = [NoCycle EXCEPT !.failed = TRUE]
    /\ intervals' = {t \in intervals : t.user # u}
    /\ UNCHANGED <<RosterVars, outbox, currentUser, messages, lastReadPositions, dispatched,
                   messagePollInterval, effectInterval, UIVars>>

\* useAppState.tsx:460-461,526-528  the fetch rejects, or the response is
\* not {status: 'success', messages}
PollFail(u) ==
    /\ inflight[u] > 0
    /\ inflight' = [inflight EXCEPT ![u] = @ - 1]
    /\ notified' = <<>>
    /\ cycle' = [NoCycle EXCEPT !.failed = TRUE]
    /\ UNCHANGED <<RosterVars, outbox, currentUser, messages, lastReadPositions, dispatched,
                   TimerVars, UIVars>>

\* useAppState.tsx:460-525  a response with status 'success' is merged
PollApply(u, batch) ==
    /\ inflight[u] > 0
    /\ LET r == Merge(messages, batch, u) IN
       /\ messages' = r.store
       /\ notified' = r.notes
       /\ cycle' = [user |-> u, deduped |-> (r.dups > 0), skipped |-> (r.skips > 0),
                  failed |-> FALSE, dropped |-> (r.drops > 0)]
       /\ dispatched' = dispatched \cup {r.notes[i] : i \in DOMAIN r.notes}
       /\ lastReadPositions' =
              ViewEffect(r.store, lastReadPositions, ViewTarget(currentPeer, currentChannel))
    /\ inflight' = [inflight EXCEPT ![u] = @ - 1]
    /\ UNCHANGED <<RosterVars, outbox, currentUser, TimerVars, UIVars>>

\* the records of a batch up to the first one that is dispatched
RECURSIVE UpToFirstNote(_, _, _, _)
UpToFirstNote(store, batch, user, n) ==
    IF n > Len(batch) THEN batch
    ELSE IF Merge(store, SubSeq(batch, 1, n), user).notes # <<>>
         THEN SubSeq(batch, 1, n)
         ELSE UpToFirstNote(store, batch, user, n + 1)

\* useAppState.tsx:490-508  newMessages is a shallow copy of prev: push
\* writes into the arrays prev already holds, while arrays created by the
\* updater belong to the copy alone.  What prev holds once the updater
\* has processed the records of part and has not returned:
Residue(store, part, user) ==
    [k \in DOMAIN store |-> Merge(store, part, user).store[k]]

\* useAppState.tsx:88-99, 515-519  showBrowserNotification has no
\* try/catch: when new Notification(...) throws, the exception leaves the
\* forEach and the setMessages updater at the first dispatched record.
\* Either the update is lost, or the updater is run again on prev and
\* completes if it meets no record to dispatch any more.
PollThrow(u, batch) ==
    /\ inflight[u] > 0
    /\ Merge(messages, batch, u).notes # <<>>
    /\ LET part == UpToFirstNote(messages, batch, u, 1)
           left == Residue(messages, part, u)
           again == Merge(left, batch, u)
       IN  /\ \/ /\ messages' = left
                 /\ lastReadPositions' = lastReadPositions
              \/ /\ again.notes = <<>>
                 /\ messages' = again.store
                 /\ lastReadPositions' =
                        ViewEffect(again.store, lastReadPositions,
                                   ViewTarget(currentPeer, currentChannel))
           /\ notified' = Merge(messages, part, u).notes
           /\ dispatched' = dispatched \cup {notified'[i] : i \in DOMAIN notified'}
    /\ cycle' = NoCycle
    /\ inflight' = [inflight EXCEPT ![u] = @ - 1]
    /\ UNCHANGED <<RosterVars, outbox, currentUser, TimerVars, UIVars>>

\* faulty variant: the new entry is put in front
Sent_Front(store, user, text, target, now) ==
    Put(store, target, <<Optimistic(user, text, now)>> \o Get(store, target, <<>>))

\* useAppState.tsx:362-377  the optimistic append of sendMessage
Sent(store, user, text, target, now) ==
    Put(store, target, Append(Get(store, target, <<>>), Optimistic(user, text, now)))

\* useAppState.tsx:357-377  sendMessage (the remote call that follows the
\* append changes no state)
SendMessage(text, target, now) ==
    /\ currentUser # NoUser
    /\ OptimisticCount(messages) < MaxSends
    /\ outbox.sending < MaxSends
    /\ outbox' = [outbox EXCEPT !.sending = @ + 1]
    /\ messages' = Sent(messages, currentUser, text, target, now)
    /\ lastReadPositions' =
           ViewEffect(messages', lastReadPositions, ViewTarget(currentPeer, currentChannel))
    /\ Quiet
    /\ UNCHANGED <<RosterVars, currentUser, inflight, dispatched, TimerVars, UIVars>>

\* what the remote call of sendMessage can come to: a success reply, a
\* reply with another status (logged), or a rejection (logged and rethrown)
Outcomes == {"success", "refused", "error"}

\* faulty variant: a rejected call takes the optimistic entries back
SendResolve_Rollback(outcome) ==
    /\ outbox.sending > 0
    /\ outbox' = [sending |-> outbox.sending - 1,
                  failed |-> (outbox.failed \/ outcome = "error")]
    /\ messages' = IF outcome = "error"
                   THEN [k \in DOMAIN messages |->
                            SelectSeq(messages[k], LAMBDA e : ~(e.channel = NoTag /\ e.sent))]
                   ELSE messages
    /\ Quiet
    /\ UNCHANGED <<RosterVars, currentUser, lastReadPositions, inflight, dispatched,
                   TimerVars, UIVars>>

\* useAppState.tsx:379-428  the remote call of sendMessage settles
SendResolve(outcome) ==
    /\ outbox.sending > 0
    /\ outbox' = [sending |-> outbox.sending - 1,
                  failed |-> (outbox.failed \/ outcome = "error")]
    /\ Quiet
    /\ UNCHANGED <<RosterVars, currentUser, messages, lastReadPositions, inflight,
                   dispatched, TimerVars, UIVars>>

\* faulty variant: clearChat empties every conversation
ClearChat_All(target) ==
    /\ currentUser # NoUser
    /\ messages' = [k \in (DOMAIN messages) \cup {target} |-> <<>>]
    /\ lastReadPositions' = [k \in (DOMAIN lastReadPositions) \cup {target} |-> 0]
    /\ Quiet
    /\ UNCHANGED <<RosterVars, outbox, currentUser, inflight, dispatched, TimerVars, UIVars>>

\* faulty variant: clearChat empties the sequence and leaves the cursor
ClearChat_KeepsCursor(target) ==
    /\ currentUser # NoUser
    /\ messages' = Put(messages, target, <<>>)
    /\ lastReadPositions' = lastReadPositions
    /\ Quiet
    /\ UNCHANGED <<RosterVars, outbox, currentUser, inflight, dispatched, TimerVars, UIVars>>

\* useAppState.tsx:277-280  clearChat
ClearChat(target) ==
    /\ currentUser # NoUser
    /\ messages' = Put(messages, target, <<>>)
    /\ lastReadPositions' =
           ViewEffect(messages', Put(lastReadPositions, target, 0),
                      ViewTarget(currentPeer, currentChannel))
    /\ Quiet
    /\ UNCHANGED <<RosterVars, outbox, currentUser, inflight, dispatched, TimerVars, UIVars>>

\* faulty variant: the cursor is set to the index of the last entry
MarkAsRead_LastIndex(target) ==
    /\ currentUser # NoUser
    /\ lastReadPositions' =
           Put(lastReadPositions, target,
               IF Get(messages, target, <<>>) = <<>> THEN 0
               ELSE Len(messages[target]) - 1)
    /\ Quiet
    /\ UNCHANGED <<RosterVars, outbox, currentUser, messages, inflight, dispatched,
                   TimerVars, UIVars>>

\* useAppState.tsx:282-285  markAsRead
MarkAsRead(target) ==
    /\ currentUser # NoUser
    /\ lastReadPositions' = Put(lastReadPositions, target, Len(Get(messages, target, <<>>)))
    /\ Quiet
    /\ UNCHANGED <<RosterVars, outbox, currentUser, messages, inflight, dispatched, TimerVars, UIVars>>

(* ---------------------- channels and the roster ----------------------- *)
\* channels.includes(channelName)
InList(list, x) == \E i \in DOMAIN list : list[i] = x

\* a pending request made with the same arguments from the same render
Same(q, op, channel) ==
    /\ q.op = op /\ q.channel = channel /\ q.user = currentUser
    /\ q.known = InList(channels, channel)
    /\ q.viewed = (currentChannel = channel)

\* a request to the tracker that has not settled: the operation, its
\* channel, and what the callback's closure saw when it was called; copy
\* tells apart calls that are alike in all of these
Request(op, channel) ==
    [op |-> op, channel |-> channel, user |-> currentUser,
     known |-> InList(channels, channel),
     viewed |-> (currentChannel = channel),
     copy |-> CHOOSE c \in 1..MaxRequests :
                 /\ \A q \in pending : Same(q, op, channel) => q.copy # c
                 /\ \A d \in 1..(c - 1) :
                       \E q \in pending : Same(q, op, channel) /\ q.copy = d]

\* useAppState.tsx:183-200, 236-254, 325-338  the call up to its first await
Call(op, channel) ==
    /\ currentUser # NoUser
    /\ Cardinality(pending) < MaxRequests
    /\ Request(op, channel) \notin pending
    /\ pending' = pending \cup {Request(op, channel)}
    /\ Quiet
    /\ UNCHANGED <<channels, peers, outbox, currentUser, messages, lastReadPositions,
                   inflight, dispatched, TimerVars, UIVars>>

\* part_000:174-178 handleJoinChannel calling joinChannel (183-200)
JoinStart(channel) == Call("join", channel)

\* part_000:209-217 handleLeaveChannel calling leaveChannel (236-254)
LeaveStart(channel) == Call("leave", channel)

\* part_000:160-172 calling refreshPeerList (325-338)
ListStart == Call("list", NoKey)

\* useAppState.tsx:202-205, 270-272, 339-342, 352-354  the request fails:
\* joinChannel throws, leaveChannel and refreshPeerList log; after a
\* leaveChannel that only logged, part_000:213-215 still deselects
RequestFail(r) ==
    /\ r \in pending /\ r.op \in {"join", "leave", "list"}
    /\ pending' = pending \ {r}
    /\ currentChannel' = IF r.op = "leave" /\ r.viewed THEN NoKey ELSE currentChannel
    /\ Quiet
    /\ UNCHANGED <<channels, peers, outbox, currentUser, messages, lastReadPositions,
                   inflight, dispatched, TimerVars,
                   currentPeer, typingUsers, typingTimeoutRef>>

\* useAppState.tsx:207-231  joinChannel after the tracker's success reply
JoinDone(r) ==
    /\ r \in pending /\ r.op = "join"
    /\ pending' = pending \ {r}
    /\ IF r.known
       THEN UNCHANGED <<channels, messages, lastReadPositions>>
       ELSE /\ channels' = Append(channels, r.channel)
            /\ messages' = Put(messages, r.channel, <<>>)
            /\ lastReadPositions' =
                   ViewEffect(messages', Put(lastReadPositions, r.channel, 0),
                              ViewTarget(currentPeer, currentChannel))
    /\ Quiet
    /\ UNCHANGED <<peers, outbox, currentUser, inflight, dispatched, TimerVars, UIVars>>

\* useAppState.tsx:256-269  leaveChannel after the tracker's success
\* reply, then part_000:213-215 deselecting the channel if it was viewed
LeaveDone(r) ==
    /\ r \in pending /\ r.op = "leave"
    /\ pending' = pending \ {r}
    /\ channels' = SelectSeq(channels, LAMBDA c : c # r.channel)
    /\ messages' = Del(messages, r.channel)
    /\ currentChannel' = IF r.viewed THEN NoKey ELSE currentChannel
    /\ lastReadPositions' =
           ViewEffect(messages', Del(lastReadPositions, r.channel),
                      ViewTarget(currentPeer, currentChannel'))
    /\ Quiet
    /\ UNCHANGED <<peers, outbox, currentUser, inflight, dispatched, TimerVars,
                   currentPeer, typingUsers, typingTimeoutRef>>

\* what the tracker can list as channels: nothing, or the names as keys
ChannelLists == {<<>>, <<"general">>, <<"general", "bob">>}

\* useAppState.tsx:344-351  refreshPeerList after a success reply with
\* data.peers and data.channels
ListDone(r, roster, list) ==
    /\ r \in pending /\ r.op = "list"
    /\ pending' = pending \ {r}
    /\ peers' = roster \ {r.user}
    /\ channels' = list
    /\ Quiet
    /\ UNCHANGED <<outbox, currentUser, messages, lastReadPositions, inflight,
                   dispatched, TimerVars, UIVars>>

\* the mark-as-read effect after a change of selection: it runs only when
\* the target has changed (ChatArea.tsx:35-39)
Selected(peer, channel) ==
    /\ currentPeer' = peer
    /\ currentChannel' = channel
    /\ lastReadPositions' =
           IF ViewTarget(peer, channel) = ViewTarget(currentPeer, currentChannel)
           THEN lastReadPositions
           ELSE ViewEffect(messages, lastReadPositions, ViewTarget(peer, channel))

\* ChatInput.tsx:78-90  handleChannelSelect(channel), channel not null
HandleChannelSelect(channel) ==
    /\ currentUser # NoUser
    /\ IF currentChannel = channel
       THEN Selected(currentPeer, NoKey)
       ELSE Selected(NoKey, channel)
    /\ Quiet
    /\ UNCHANGED <<RosterVars, outbox, currentUser, messages, inflight, dispatched, TimerVars,
                   typingUsers, typingTimeoutRef>>

\* ChatInput.tsx:92-104  handlePeerSelect(peer), peer not null
HandlePeerSelect(peer) ==
    /\ currentUser # NoUser
    /\ IF currentPeer = peer
       THEN Selected(NoKey, currentChannel)
       ELSE Selected(peer, NoKey)
    /\ Quiet
    /\ UNCHANGED <<RosterVars, outbox, currentUser, messages, inflight, dispatched, TimerVars,
                   typingUsers, typingTimeoutRef>>

\* faulty variant: selecting a peer leaves the selected channel in place
PeerSelect_KeepsChannel(peer, toggles) ==
    IF toggles THEN Selected(NoKey, currentChannel) ELSE Selected(peer, currentChannel)

\* ChatInput.tsx:92-104  handlePeerSelect(peer) of a render in which
\* currentPeer === peer was toggles
PeerSelect(peer, toggles) ==
    IF toggles THEN Selected(NoKey, currentChannel) ELSE Selected(peer, NoKey)

\* ChatArea.tsx:62  the isChannel argument handleSend passes to sendMessage
IsChannelArg(channel) == channel # NoKey

\* the connect-peer request of a click on a peer, with what the
\* handlePeerSelect of that render will see as currentPeer === peer
Connect(peer) ==
    LET alike == {q \in pending : /\ q.op = "connect" /\ q.channel = peer
                                  /\ q.user = currentUser
                                  /\ q.viewed = (currentPeer = peer)}
    IN  [op |-> "connect", channel |-> peer, user |-> currentUser,
         known |-> FALSE, viewed |-> (currentPeer = peer),
         copy |-> CHOOSE c \in 1..MaxRequests :
                     /\ \A q \in alike : q.copy # c
                     /\ \A d \in 1..(c - 1) : \E q \in alike : q.copy = d]

\* part_000:180-196  handleSelectPeer up to its await
HandleSelectPeer(peer) ==
    /\ currentUser # NoUser
    /\ Cardinality(pending) < MaxRequests
    /\ pending' = pending \cup {Connect(peer)}
    /\ Quiet
    /\ UNCHANGED <<channels, peers, outbox, currentUser, messages, lastReadPositions,
                   inflight, dispatched, TimerVars, UIVars>>

\* part_000:197-206  the connect-peer request settles, in success or in
\* failure, and onPeerSelect(peer.username) of the click's render runs;
\* after a logout ChatInterface is unmounted and its setters do nothing
PeerSelected(r) ==
    /\ r \in pending /\ r.op = "connect"
    /\ pending' = pending \ {r}
    /\ IF currentUser = NoUser
       THEN UNCHANGED <<currentPeer, currentChannel, lastReadPositions>>
       ELSE PeerSelect(r.channel, r.viewed)
    /\ Quiet
    /\ UNCHANGED <<channels, peers, outbox, currentUser, messages, inflight, dispatched,
                   TimerVars, typingUsers, typingTimeoutRef>>

\* ChatArea.tsx:78-94  handleInputChange: register as typing, replace the
\* pending timeout by one for the conversation now viewed
HandleInputChange ==
    /\ currentUser # NoUser
    /\ ViewTarget(currentPeer, currentChannel) # NoKey
    /\ typingUsers' = SetTyping(typingUsers, ViewTarget(currentPeer, currentChannel),
                                TRUE, currentUser)
    /\ typingTimeoutRef' = [target |-> ViewTarget(currentPeer, currentChannel),
                            user |-> currentUser]
    /\ Quiet
    /\ UNCHANGED <<RosterVars, outbox, currentUser, messages, lastReadPositions, inflight, dispatched,
                   TimerVars, currentChannel, currentPeer>>

\* ChatArea.tsx:91-93  the pending timeout fires after 3000 ms without input
TypingTimeout ==
    /\ typingTimeoutRef # NoTimeout
    /\ typingUsers' = SetTyping(typingUsers, typingTimeoutRef.target, FALSE,
                                typingTimeoutRef.user)
    /\ typingTimeoutRef' = NoTimeout
    /\ Quiet
    /\ UNCHANGED <<RosterVars, outbox, currentUser, messages, lastReadPositions, inflight, dispatched,
                   TimerVars, currentChannel, currentPeer>>

\* ChatArea.tsx:53-69  handleSend with a non-blank text and a target
HandleSend(text, now) ==
    /\ currentUser # NoUser
    /\ ViewTarget(currentPeer, currentChannel) # NoKey
    /\ OptimisticCount(messages) < MaxSends
    /\ outbox.sending < MaxSends
    /\ outbox' = [outbox EXCEPT !.sending = @ + 1]
    /\ typingUsers' = SetTyping(typingUsers, ViewTarget(currentPeer, currentChannel),
                                FALSE, currentUser)
    /\ messages' = Sent(messages, currentUser, text,
                        ViewTarget(currentPeer, currentChannel), now)
    /\ lastReadPositions' =
           ViewEffect(messages', lastReadPositions, ViewTarget(currentPeer, currentChannel))
    /\ Quiet
    /\ UNCHANGED <<RosterVars, currentUser, inflight, dispatched, TimerVars,
                   currentChannel, currentPeer, typingTimeoutRef>>

(* ------------------------- the specifications ------------------------- *)
Next ==
    \/ \E u \in Users : RegisterPeer(u)
    \/ Logout
    \/ \E t \in intervals : Tick(t)
    \/ \E u \in Users : PollFail(u)
    \/ \E u \in Users, b \in Singles : PollApply(u, b)
    \/ \E text \in Bodies, target \in SendTargets(currentUser), now \in ClockTimes :
          SendMessage(text, target, now)
    \/ \E target \in SendTargets(currentUser) : ClearChat(target)
    \/ \E target \in SendTargets(currentUser) : MarkAsRead(target)
    \/ \E channel \in ChannelNames : HandleChannelSelect(channel)
    \/ \E peer \in Users \ {currentUser} : HandlePeerSelect(peer)
    \/ HandleInputChange
    \/ TypingTimeout
    \/ \E text \in Bodies, now \in ClockTimes : HandleSend(text, now)
    \/ \E outcome \in Outcomes : SendResolve(outcome)
    \/ \E u \in Users, b \in Singles : PollThrow(u, b)
    \/ \E channel \in ChannelNames : JoinStart(channel) \/ LeaveStart(channel)
    \/ ListStart
    \/ \E r \in pending : RequestFail(r) \/ JoinDone(r) \/ LeaveDone(r)
    \/ \E r \in pending, roster \in SUBSET Users, list \in ChannelLists :
          ListDone(r, roster, list)
    \/ \E peer \in peers : HandleSelectPeer(peer)
    \/ \E r \in pending : PeerSelected(r)

Spec == Init /\ [][Next]_vars

\* The loop's life cycle: identities come and go, ticks issue fetches,
\* responses arrive in any order.
NextLoop ==
    \/ \E u \in Users : RegisterPeer(u)
    \/ Logout
    \/ \E t \in intervals : Tick(t)
    \/ \E u \in Users : PollFail(u)
    \/ \E u \in Users, b \in Singles : PollApply(u, b)

LoopSpec == Init /\ [][NextLoop]_vars

\* One session of alice: the state right after registerPeer, and the
\* operations that leave the identity alone.
InitSession ==
    /\ currentUser = "alice"
    /\ messages = Empty
    /\ lastReadPositions = Empty
    /\ typingUsers = Empty
    /\ messagePollInterval = 1
    /\ effectInterval = 1
    /\ intervals = {[id |-> 1, user |-> "alice"]}
    /\ inflight = [u \in Users |-> 0]
    /\ currentChannel = NoKey
    /\ currentPeer = NoKey
    /\ typingTimeoutRef = NoTimeout
    /\ notified = <<>>
    /\ cycle = NoCycle
    /\ dispatched = {}
    /\ channels = <<>>
    /\ peers = {}
    /\ pending = {}
    /\ outbox = NoSends

\* polls of whole batches against optimistic sends, at the reference
\* cadence (a fetch resolves before the next tick)
NextMerge ==
    \/ \E t \in intervals : InFlightCount = 0 /\ Tick(t)
    \/ \E u \in Users : PollFail(u)
    \/ \E u \in Users, b \in Batches : PollApply(u, b)
    \/ \E text \in Bodies, target \in SendTargets(currentUser), now \in ClockTimes :
          SendMessage(text, target, now)

MergeSpec == InitSession /\ [][NextMerge]_vars

\* polls against sends and the read cursor
NextRead ==
    \/ \E t \in intervals : Tick(t)
    \/ \E u \in Users : PollFail(u)
    \/ \E u \in Users, b \in Singles : PollApply(u, b)
    \/ \E text \in Bodies, target \in SendTargets(currentUser), now \in ClockTimes :
          SendMessage(text, target, now)
    \/ \E target \in SendTargets(currentUser) : MarkAsRead(target)

ReadSpec == InitSession /\ [][NextRead]_vars

\* polls against sends and clears
NextClear ==
    \/ \E t \in intervals : Tick(t)
    \/ \E u \in Users : PollFail(u)
    \/ \E u \in Users, b \in Singles : PollApply(u, b)
    \/ \E text \in Bodies, target \in SendTargets(currentUser), now \in ClockTimes :
          SendMessage(text, target, now)
    \/ \E target \in SendTargets(currentUser) : ClearChat(target)

ClearSpec == InitSession /\ [][NextClear]_vars

\* the chat view: selecting conversations, typing and sending
NextTyping ==
    \/ \E channel \in ChannelNames : HandleChannelSelect(channel)
    \/ \E peer \in Users \ {currentUser} : HandlePeerSelect(peer)
    \/ HandleInputChange
    \/ TypingTimeout
    \/ \E text \in Bodies, now \in ClockTimes : HandleSend(text, now)

TypingSpec == InitSession /\ [][NextTyping]_vars

\* sends whose remote call settles in any of its ways, against polls
NextSend ==
    \/ \E t \in intervals : Tick(t)
    \/ \E u \in Users : PollFail(u)
    \/ \E u \in Users, b \in Singles : PollApply(u, b)
    \/ \E text \in Bodies, target \in SendTargets(currentUser), now \in ClockTimes :
          SendMessage(text, target, now)
    \/ \E outcome \in Outcomes : SendResolve(outcome)

SendSpec == InitSession /\ [][NextSend]_vars

\* channels listed in the sidebar, and peers of the roster
Listed == {c \in ChannelNames : InList(channels, c)}

\* a session that fills every store and ends: joining, listing, selecting,
\* typing and sending until logout, and the requests that settle after it;
\* a request is made when the one before has settled
NextTeardown ==
    \/ Logout
    \/ \E channel \in ChannelNames : pending = {} /\ JoinStart(channel)
    \/ pending = {} /\ ListStart
    \/ \E r \in pending : RequestFail(r)
    \/ \E r \in pending : JoinDone(r)
    \/ \E r \in pending, roster \in SUBSET Users, list \in ChannelLists :
          ListDone(r, roster, list)
    \/ \E channel \in Listed : HandleChannelSelect(channel)
    \/ HandleInputChange
    \/ \E text \in Bodies, now \in ClockTimes : HandleSend(text, now)

TeardownSpec == InitSession /\ [][NextTeardown]_vars

\* responses with at most one record from bob, direct or in 'general'
Probes ==
    {b \in Singles : \A i \in DOMAIN b : b[i].from = "bob" /\ b[i].channel \in {NoTag, "general"}}

\* everything that writes a sequence or a cursor: sends, polls, markAsRead,
\* clearChat, joining and leaving channels one request at a time, logging
\* out, and what settles after the logout
NextCursor ==
    \/ Logout
    \/ \E t \in intervals : InFlightCount = 0 /\ Tick(t)
    \/ \E u \in Users, b \in Probes : PollApply(u, b)
    \/ \E text \in Bodies, target \in SendTargets(currentUser), now \in ClockTimes :
          SendMessage(text, target, now)
    \/ \E target \in SendTargets(currentUser) : MarkAsRead(target)
    \/ \E target \in SendTargets(currentUser) : ClearChat(target)
    \/ \E channel \in ChannelNames : pending = {} /\ JoinStart(channel)
    \/ \E channel \in Listed : pending = {} /\ LeaveStart(channel)
    \/ \E r \in pending : RequestFail(r)
    \/ \E r \in pending : JoinDone(r)
    \/ \E r \in pending : LeaveDone(r)

CursorSpec == InitSession /\ [][NextCursor]_vars

\* polls on a platform where displaying a notification can throw
NextNotify ==
    \/ \E t \in intervals : InFlightCount = 0 /\ Tick(t)
    \/ \E u \in Users : PollFail(u)
    \/ \E u \in Users, b \in Batches : PollApply(u, b)
    \/ \E u \in Users, b \in Batches : PollThrow(u, b)
    \/ \E text \in Bodies, target \in SendTargets(currentUser), now \in ClockTimes :
          SendMessage(text, target, now)

NotifySpec == InitSession /\ [][NextNotify]_vars

\* a session in which a conversation is viewed while messages arrive, are
\* sent and cleared, next to a roster, joined channels and typing
NextView ==
    \/ \E t \in intervals : InFlightCount = 0 /\ Tick(t)
    \/ \E u \in Users, b \in Probes : PollApply(u, b)
    \/ \E text \in Bodies, target \in peers \cup Listed, now \in ClockTimes :
          SendMessage(text, target, now)
    \/ \E target \in peers \cup Listed : ClearChat(target)
    \/ pending = {} /\ ListStart
    \/ \E r \in pending : ListDone(r, Users, <<"general">>)
    \/ \E channel \in Listed : HandleChannelSelect(channel)
    \/ \E peer \in peers : HandlePeerSelect(peer)
    \/ HandleInputChange

ViewSpec == InitSession /\ [][NextView]_vars

\* joining and leaving channels while the roster is refreshed and channels
\* are selected; requests overlap
NextChannel ==
    \/ \E channel \in ChannelNames : JoinStart(channel)
    \/ \E channel \in Listed : LeaveStart(channel)
    \/ ListStart
    \/ \E r \in pending : RequestFail(r)
    \/ \E r \in pending : JoinDone(r)
    \/ \E r \in pending : LeaveDone(r)
    \/ \E r \in pending, list \in ChannelLists : ListDone(r, Users, list)
    \/ \E channel \in Listed : HandleChannelSelect(channel)

ChannelSpec == InitSession /\ [][NextChannel]_vars

\* polls of whole batches, one after the other, and nothing else
NextIntake ==
    \/ \E t \in intervals : InFlightCount = 0 /\ Tick(t)
    \/ \E u \in Users, b \in Batches : PollApply(u, b)

IntakeSpec == InitSession /\ [][NextIntake]_vars

\* records of the endpoint that a cycle of user has to store
Deliverable(user) ==
    {msg \in Records : ~SkipSelf(msg, user) /\ Target(msg, user) # ""}

\* a response with status 'success' that carries msg is processed
Returned(msg) == PollApply("alice", <<msg>>) \/ PollThrow("alice", <<msg>>)

\* the loop stays Active: the timer keeps ticking (setInterval,
\* useAppState.tsx:444,529), a fetch can fail, and for every record of the
\* endpoint a successful response that carries it keeps arriving
NextLive ==
    \/ \E t \in intervals : InFlightCount = 0 /\ Tick(t)
    \/ \E u \in Users : PollFail(u)
    \/ \E u \in Users, b \in Singles : PollApply(u, b)
    \/ \E u \in Users, b \in Singles : PollThrow(u, b)
    \/ \E text \in Bodies, target \in SendTargets(currentUser), now \in ClockTimes :
          SendMessage(text, target, now)

LiveSpec ==
    /\ InitSession /\ [][NextLive]_vars
    /\ WF_vars(\E t \in intervals : InFlightCount = 0 /\ Tick(t))
    /\ \A msg \in Deliverable("alice") : SF_vars(Returned(msg))

\* selecting channels and peers, leaving channels and sending, with the
\* requests behind the clicks settling in any order
NextSelect ==
    \/ ListStart
    \/ \E r \in pending : ListDone(r, Users, <<"general", "bob">>)
    \/ \E channel \in Listed : HandleChannelSelect(channel)
    \/ \E peer \in peers : HandleSelectPeer(peer)
    \/ \E r \in pending : PeerSelected(r)
    \/ \E channel \in Listed : LeaveStart(channel)
    \/ \E r \in pending : RequestFail(r)
    \/ \E r \in pending : LeaveDone(r)
    \/ \E text \in Bodies, now \in ClockTimes : HandleSend(text, now)

SelectSpec == InitSession /\ [][NextSelect]_vars

(* ------------------------------- claims ------------------------------- *)

\* C1: merging a fetched batch a second time changes nothing: for every
\* store the engine can hold and every batch, merging the batch into the
\* result of merging it gives that result again, and a record whose
\* (sender, body, timestamp) already occurs in its target conversation
\* leaves the store as it is.
C1_IdempotentMerge ==
    /\ \A b \in Batches :
          LET once == Merge(messages, b, currentUser).store
              again == Merge(once, b, currentUser)
          IN  again.store = once /\ again.notes = <<>>
    /\ \A msg \in Records :
          LET target == Target(msg, currentUser) IN
          (target \in DOMAIN messages /\ Exists(messages[target], msg))
              => Merge(messages, <<msg>>, currentUser).store = messages

\* a poll has just returned records that were already merged, next to a
\* message the store holds
C1_Witness ==
    /\ cycle.user = currentUser /\ cycle.deduped /\ notified = <<>>
    /\ "bob" \in DOMAIN messages /\ Len(messages["bob"]) = 2

\* C4: a fetched direct record (no tag, or 'direct') whose sender is the
\* identity the cycle runs for is never appended, to any conversation, and
\* triggers nothing; so the only direct entries of the own identity in the
\* store are the ones sendMessage wrote, under the key they were sent to.
C4_SelfSkip ==
    /\ \A msg \in Records :
          (IsDirect(msg) /\ msg.from = currentUser) =>
              LET r == Merge(messages, <<msg>>, currentUser)
              IN  r.store = messages /\ r.notes = <<>>
    /\ \A k \in DOMAIN messages : \A i \in DOMAIN messages[k] :
          LET e == messages[k][i] IN
          (e.from = currentUser /\ IsDirect(e)) =>
              /\ e.channel = NoTag /\ e.sent
              /\ k \in SendTargets(currentUser)

\* a poll has just skipped the echo of a direct message that was sent
\* optimistically, and the conversation still holds it once
C4_Witness ==
    /\ cycle.user = currentUser /\ cycle.skipped
    /\ "bob" \in DOMAIN messages
    /\ messages["bob"] = <<Optimistic(currentUser, "hi", 1)>>

\* C9 (as amended): a fetched record with a channel tag other than 'direct'
\* is appended to the sequence keyed by that tag unless already present
\* there, and every other conversation is unchanged; the sequence keyed by
\* the sender's username is unchanged too, except when the tag is itself the
\* sender's username, where that one sequence is the channel's.
C9_ChannelClassification ==
    \A msg \in Records :
        ~IsDirect(msg) =>
            LET r == Merge(messages, <<msg>>, currentUser).store
                old == Get(messages, msg.channel, <<>>)
            IN  /\ DOMAIN r = (DOMAIN messages) \cup {msg.channel}
                /\ r[msg.channel] = IF Exists(old, msg) THEN old
                                    ELSE Append(old, Stored(msg, currentUser))
                /\ \A k \in DOMAIN r : k # msg.channel => r[k] = messages[k]
                /\ msg.from # msg.channel =>
                       Get(r, msg.from, <<>>) = Get(messages, msg.from, <<>>)

\* C9 as stated: the sequence keyed by the sender's username is unchanged
\* for every channel-tagged record
C9_SenderSequenceUnchanged ==
    \A msg \in Records :
        ~IsDirect(msg) =>
            Get(Merge(messages, <<msg>>, currentUser).store, msg.from, <<>>)
                = Get(messages, msg.from, <<>>)

\* a channel record from bob sits in the channel's sequence while the
\* direct conversation with bob holds something else
C9_Witness ==
    /\ cycle.user = currentUser
    /\ "general" \in DOMAIN messages /\ "bob" \in DOMAIN messages
    /\ \E i \in DOMAIN messages["general"] :
          messages["general"][i].from = "bob" /\ messages["general"][i].channel = "general"
    /\ \A i \in DOMAIN messages["bob"] : messages["bob"][i].channel # "general"
    /\ messages["bob"] # <<>>

\* entries a step appended to conversation k
Appended(k) ==
    SubSeq(messages'[k], Len(Get(messages, k, <<>>)) + 1, Len(messages'[k]))

\* C10: the dispatcher calls of a merge are exactly the entries it appended
\* whose sender is not the identity of the cycle, one call per entry, to
\* the entry's conversation; nothing is dispatched for records that were
\* skipped or found present.
C10_NotificationPerMerge ==
    [][cycle'.user # NoUser =>
        /\ \A k \in DOMAIN messages' :
              /\ Len(messages'[k]) >= Len(Get(messages, k, <<>>))
              /\ \A f \in Users \cup {""}, m \in Bodies, t \in ServerTimes :
                    Cardinality({i \in DOMAIN notified' :
                        notified'[i] = [target |-> k, from |-> f, message |-> m, time |-> t]})
                    = IF f = cycle'.user THEN 0
                      ELSE Cardinality({j \in DOMAIN Appended(k) :
                              /\ Appended(k)[j].from = f
                              /\ Appended(k)[j].message = m
                              /\ Appended(k)[j].time = t})
        /\ \A i \in DOMAIN notified' : notified'[i].target \in DOMAIN messages'
      ]_vars

\* one poll brought a record already held and a new one from someone else:
\* one dispatcher call was made
C10_Witness ==
    /\ cycle.user = currentUser /\ cycle.deduped
    /\ Len(notified) = 1

\* C8: a fetched direct record (no tag, or 'direct') from another user is
\* filed under the sender's username: unless already present there it is
\* appended to that sequence, every other conversation is unchanged, and it
\* counts as one more unread message of that conversation; a conversation
\* whose cursor stands at its length has no unread message.
C8_DirectClassification ==
    /\ \A msg \in Records :
          (IsDirect(msg) /\ msg.from # currentUser /\ msg.from # "") =>
              LET r == Merge(messages, <<msg>>, currentUser).store
                  old == Get(messages, msg.from, <<>>)
              IN  /\ DOMAIN r = (DOMAIN messages) \cup {msg.from}
                  /\ \A k \in DOMAIN r : k # msg.from => r[k] = messages[k]
                  /\ IF Exists(old, msg) THEN r[msg.from] = old
                     ELSE /\ r[msg.from] = Append(old, Stored(msg, currentUser))
                          /\ UnreadIn(r, lastReadPositions, currentUser, msg.from)
                                 = UnreadCount(msg.from) + 1
    /\ \A k \in DOMAIN messages :
          Get(lastReadPositions, k, 0) = Len(messages[k]) => UnreadCount(k) = 0

\* alice has sent 'hi' to bob and a poll has brought bob's 'hi': the
\* conversation 'bob' has two entries, one of them unread
C8_Witness ==
    /\ currentUser = "alice" /\ cycle.user = "alice"
    /\ "bob" \in DOMAIN messages
    /\ Len(messages["bob"]) = 2
    /\ messages["bob"][1] = Optimistic("alice", "hi", 1)
    /\ messages["bob"][2].from = "bob" /\ ~messages["bob"][2].sent
    /\ UnreadCount("bob") = 1

\* C2: with no identity the store is empty and nothing has just been
\* dispatched, whatever responses were still outstanding at logout.
C2_InFlightDiscarded ==
    currentUser = NoUser => (messages = Empty /\ notified = <<>>)

\* timers and identity agree: a timer runs iff there is an identity, it is
\* the only one, it runs for that identity and its handle is the one kept
LoopInv ==
    /\ Cardinality(intervals) <= 1
    /\ (currentUser # NoUser) <=> (intervals # {})
    /\ \A t \in intervals : t.user = currentUser /\ t.id = messagePollInterval

\* C6: the polling timer exists exactly while an identity exists, starts
\* when one is set, is cancelled at logout, and there are never two; a fetch
\* is only ever started for the current identity.
C6_LoopLifeCycle ==
    [][/\ LoopInv'
       /\ InFlightCount' > InFlightCount =>
             /\ currentUser # NoUser
             /\ inflight' = [inflight EXCEPT ![currentUser] = @ + 1]
      ]_vars

\* after a logout with a fetch still outstanding: no identity, no timer
C6_Witness ==
    /\ currentUser = NoUser /\ intervals = {}
    /\ messagePollInterval = NoTimer
    /\ InFlightCount > 0

\* C7: at most one fetch is outstanding at any time.
C7_Sequential == InFlightCount <= 1

\* C3: a record is dispatched at most once in a session: no call repeats
\* one made earlier.
C3_ExactlyOnce ==
    [][\A i \in DOMAIN notified' :
          cycle'.user # NoUser => notified'[i] \notin dispatched]_vars

\* C5: once the 3000 ms timeout has run out and none is pending, the local
\* user is registered as typing in no conversation.
C5_TypingExpires ==
    typingTimeoutRef = NoTimeout =>
        \A k \in DOMAIN typingUsers : currentUser \notin typingUsers[k]

\* C12: a synchronization cycle that fails (the fetch rejects, or the
\* response is not a success) leaves the store, the read positions and the
\* typing registry as they were, dispatches nothing, reports no error to
\* the user, and leaves the identity and its timer in place.
C12_FailedCycleNoOp ==
    [][cycle'.failed =>
          /\ messages' = messages
          /\ lastReadPositions' = lastReadPositions
          /\ typingUsers' = typingUsers
          /\ notified' = <<>>
          /\ outbox' = outbox
          /\ currentUser' = currentUser
          /\ intervals' = intervals
          /\ messagePollInterval' = messagePollInterval
      ]_vars

\* a cycle has just failed in a session that holds messages and a read
\* position; the timer is still there
C12_Witness ==
    /\ cycle.failed
    /\ messages # Empty /\ lastReadPositions # Empty
    /\ intervals = {[id |-> messagePollInterval, user |-> currentUser]}

\* C13: sendMessage(text, target) with an identity present appends an
\* entry {from: the identity, message: text, sent: true} at the end of
\* target's sequence, touching no other sequence, before the remote call
\* is outstanding; when the remote call settles, failed or not, the store
\* and the read positions are what they were.
C13_OptimisticSend ==
    [][/\ \A text \in Bodies, target \in Keys, now \in ClockTimes :
             SendMessage(text, target, now) =>
                 /\ outbox'.sending = outbox.sending + 1
                 /\ DOMAIN messages' = (DOMAIN messages) \cup {target}
                 /\ \A k \in DOMAIN messages : k # target => messages'[k] = messages[k]
                 /\ Len(messages'[target]) = Len(Get(messages, target, <<>>)) + 1
                 /\ SubSeq(messages'[target], 1, Len(messages'[target]) - 1)
                        = Get(messages, target, <<>>)
                 /\ LET e == messages'[target][Len(messages'[target])]
                    IN  e.from = currentUser /\ e.message = text /\ e.sent
       /\ outbox'.sending < outbox.sending =>
             /\ messages' = messages
             /\ lastReadPositions' = lastReadPositions
      ]_vars

\* alice's 'hi' to bob is in the store although its remote call was rejected
C13_Witness ==
    /\ outbox.failed /\ outbox.sending = 0
    /\ "bob" \in DOMAIN messages
    /\ Optimistic("alice", "hi", 1) = messages["bob"][Len(messages["bob"])]

\* C11: the step that removes the identity leaves the store, the read
\* positions, the typing registry, the peer roster and the channel list
\* empty, whatever they held.
C11_LogoutTeardown ==
    [][(currentUser # NoUser /\ currentUser' = NoUser) =>
          /\ messages' = Empty
          /\ lastReadPositions' = Empty
          /\ typingUsers' = Empty
          /\ peers' = {}
          /\ channels' = <<>>
      ]_vars

\* logged out with everything empty, in a session that had sent a message
\* and still has a tracker request outstanding
C11_Witness ==
    /\ currentUser = NoUser
    /\ messages = Empty /\ lastReadPositions = Empty /\ typingUsers = Empty
    /\ peers = {} /\ channels = <<>>
    /\ outbox.sending > 0 /\ pending # {}

\* C14: for every conversation of the store the exposed unread count is
\* the number of entries at index >= cursor (0 when absent) whose sender is
\* not the local identity.
C14_UnreadDerivation ==
    \A k \in DOMAIN messages :
        UnreadCount(k) =
            Cardinality({i \in DOMAIN messages[k] :
                /\ i - 1 >= Get(lastReadPositions, k, 0)
                /\ messages[k][i].from # currentUser})

\* C15: right after markAsRead(key) the cursor of key is the length of
\* key's sequence (0 when it has none), and the unread count of key is 0.
C15_MarkRead ==
    [][\A key \in Keys :
          MarkAsRead(key) =>
              /\ key \in DOMAIN lastReadPositions'
              /\ lastReadPositions'[key] = Len(Get(messages', key, <<>>))
              /\ UnreadIn(messages', lastReadPositions', currentUser', key) = 0
      ]_vars

\* bob's only message has been marked read
C15_Witness ==
    /\ "bob" \in DOMAIN messages /\ "bob" \in DOMAIN lastReadPositions
    /\ Len(messages["bob"]) = 1 /\ messages["bob"][1].from = "bob"
    /\ lastReadPositions["bob"] = 1
    /\ UnreadCount("bob") = 0

\* C16: every read position lies between 0 and the length of its key's
\* sequence (0 when the key has no sequence).
C16_CursorBounds ==
    \A k \in DOMAIN lastReadPositions :
        /\ 0 <= lastReadPositions[k]
        /\ lastReadPositions[k] <= Len(Get(messages, k, <<>>))

\* a joined channel with cursor 0 next to a conversation read to its end
C16_Witness ==
    /\ InList(channels, "general")
    /\ "general" \in DOMAIN lastReadPositions /\ lastReadPositions["general"] = 0
    /\ "bob" \in DOMAIN lastReadPositions /\ "bob" \in DOMAIN messages
    /\ lastReadPositions["bob"] = Len(messages["bob"])
    /\ lastReadPositions["bob"] > 0

\* C17: while the cursor of a conversation and the identity stay as they
\* are and the conversation only grows, its unread count grows by exactly
\* the number of appended entries whose sender is not the local identity
\* (so it never decreases).
C17_UnreadMonotone ==
    [][\A k \in DOMAIN messages' :
          LET old == Get(messages, k, <<>>)
              new == messages'[k]
          IN  (/\ currentUser # NoUser /\ currentUser' = currentUser
               /\ Get(lastReadPositions', k, 0) = Get(lastReadPositions, k, 0)
               /\ Len(new) >= Len(old)
               /\ SubSeq(new, 1, Len(old)) = old)
              => UnreadIn(messages', lastReadPositions', currentUser, k)
                     = UnreadCount(k)
                       + Cardinality({i \in (Len(old) + 1)..Len(new) :
                                         new[i].from # currentUser})
      ]_vars

\* C18: no key of the typing registry is mapped to the empty set, and
\* setTyping(key, false) that removes the last username removes the key.
C18_TypingPruned ==
    /\ \A k \in DOMAIN typingUsers : typingUsers[k] # {}
    /\ \A k \in DOMAIN typingUsers :
          typingUsers[k] = {currentUser} =>
              k \notin DOMAIN SetTyping(typingUsers, k, FALSE, currentUser)
    /\ \A k \in Keys :
          \A j \in DOMAIN SetTyping(typingUsers, k, FALSE, currentUser) :
              SetTyping(typingUsers, k, FALSE, currentUser)[j] # {}

\* alice typed in 'bob' and in 'general'; the entry of 'general' has gone
\* with its key, the one of 'bob' is still there
C18_Witness ==
    /\ currentChannel = "general"
    /\ typingTimeoutRef = NoTimeout
    /\ typingUsers = [k \in {"bob"} |-> {"alice"}]

\* C19: a cycle in which displaying the notification for a record throws
\* leaves the store as the same cycle would have left it had the display
\* succeeded: the record appended, the rest of the batch merged.
C19_SideEffectIsolation ==
    [][\A u \in Users, b \in Batches :
          PollThrow(u, b) => messages' = Merge(messages, b, u).store]_vars

\* C20: a step that is not a clearChat, a leave, a join that resets, or a
\* logout keeps every sequence of the store as a prefix of the sequence the
\* key has afterwards: sends and polls only add at the end, and nothing is
\* re-ordered.
C20_ArrivalOrder ==
    [][~(\/ Logout
         \/ \E target \in Keys : ClearChat(target)
         \/ \E r \in pending : (JoinDone(r) /\ ~r.known) \/ LeaveDone(r))
       => \A k \in DOMAIN messages :
             /\ k \in DOMAIN messages'
             /\ Len(messages'[k]) >= Len(messages[k])
             /\ SubSeq(messages'[k], 1, Len(messages[k])) = messages[k]
      ]_vars

\* bob's message stamped 1 stands after alice's message stamped 2, which
\* was there first
C20_Witness ==
    /\ "bob" \in DOMAIN messages
    /\ Len(messages["bob"]) = 2
    /\ messages["bob"][1] = Optimistic("alice", "hi", 2)
    /\ messages["bob"][2].from = "bob" /\ messages["bob"][2].time = 1

\* C21: clearChat(key) leaves key with an empty sequence and the read
\* position 0, and leaves as they were the sequence and the read position
\* of every other key, the typing registry, the roster, the channel list
\* and the identity.
C21_ClearFrame ==
    [][\A key \in Keys :
          ClearChat(key) =>
              /\ DOMAIN messages' = (DOMAIN messages) \cup {key}
              /\ DOMAIN lastReadPositions' = (DOMAIN lastReadPositions) \cup {key}
              /\ messages'[key] = <<>>
              /\ lastReadPositions'[key] = 0
              /\ \A k \in DOMAIN messages : k # key => messages'[k] = messages[k]
              /\ \A k \in DOMAIN lastReadPositions :
                    k # key => lastReadPositions'[k] = lastReadPositions[k]
              /\ typingUsers' = typingUsers
              /\ peers' = peers /\ channels' = channels
              /\ currentUser' = currentUser
      ]_vars

\* the conversation with bob has been cleared while 'general' is viewed
\* and holds a message, alice is registered as typing there and the roster
\* lists bob
C21_Witness ==
    /\ "bob" \in DOMAIN messages /\ messages["bob"] = <<>>
    /\ "bob" \in DOMAIN lastReadPositions /\ lastReadPositions["bob"] = 0
    /\ \E n \in dispatched : n.target = "bob"
    /\ currentChannel = "general"
    /\ "general" \in DOMAIN messages /\ messages["general"] # <<>>
    /\ lastReadPositions["general"] = Len(messages["general"])
    /\ typingUsers # Empty
    /\ peers = {"bob"} /\ InList(channels, "general")

\* C22: when leaveChannel(key) has returned, key has no sequence in the
\* store and no read position, however the request to the tracker ended.
C22_LeaveRemoves ==
    [][\A r \in pending :
          (r.op = "leave" /\ (LeaveDone(r) \/ RequestFail(r))) =>
              /\ r.channel \notin DOMAIN messages'
              /\ r.channel \notin DOMAIN lastReadPositions'
      ]_vars

\* a record for which the merge can determine no target key
Malformed(msg, user) == ~SkipSelf(msg, user) /\ Target(msg, user) = ""

\* C23: a record without a determinable target is the only thing a merge
\* leaves out: merging a batch gives the store and the dispatcher calls
\* that merging the batch without its malformed records gives.
C23_MalformedSkipped ==
    \A b \in Batches :
        LET rest == SelectSeq(b, LAMBDA msg : ~Malformed(msg, currentUser))
            whole == Merge(messages, b, currentUser)
            clean == Merge(messages, rest, currentUser)
        IN  /\ whole.store = clean.store
            /\ whole.notes = clean.notes
            /\ whole.drops = Len(b) - Len(rest)

\* a poll has just dropped a malformed record and appended and dispatched
\* another record of the same batch, next to a message already held
C23_Witness ==
    /\ cycle.user = currentUser /\ cycle.dropped
    /\ Len(notified) = 1
    /\ \E k \in DOMAIN messages : Len(messages[k]) = 2
    /\ "" \notin DOMAIN messages

\* C24: in a session that stays Active, where ticks keep coming and a
\* successful response with each record of the endpoint keeps arriving,
\* every record that is not a self-sent direct record and has a target is
\* from some point on in the sequence of its key (its sender for a direct
\* record, its tag for a channel record).
C24_EventuallyStored ==
    \A msg \in Deliverable("alice") :
        <>[](LET key == IF IsDirect(msg) THEN msg.from ELSE msg.channel
             IN  /\ key \in DOMAIN messages
                 /\ \E i \in DOMAIN messages[key] :
                       /\ messages[key][i].from = msg.from
                       /\ messages[key][i].message = msg.message
                       /\ messages[key][i].time = msg.time)

\* C25: the selected channel and the selected peer are never both set; and
\* when handleSend sends, the target is passed as a channel exactly when it
\* is the selected channel, and as a direct peer exactly when it is the
\* selected peer.
C25_SelectionExclusive ==
    [][/\ ~(currentChannel # NoKey /\ currentPeer # NoKey)
       /\ ~(currentChannel' # NoKey /\ currentPeer' # NoKey)
       /\ \A text \in Bodies, now \in ClockTimes :
             HandleSend(text, now) =>
                 LET target == ViewTarget(currentPeer, currentChannel) IN
                 /\ IsChannelArg(currentChannel) <=> target = currentChannel
                 /\ ~IsChannelArg(currentChannel) <=> target = currentPeer
      ]_vars

\* bob is selected and holds a message sent to him, after 'general' was
\* viewed; the leave of 'general' clicked while it was viewed is still
\* outstanding
C25_Witness ==
    /\ currentPeer = "bob" /\ currentChannel = NoKey
    /\ "bob" \in DOMAIN messages /\ Len(messages["bob"]) = 1
    /\ "general" \in DOMAIN lastReadPositions
    /\ \E r \in pending : r.op = "leave" /\ r.channel = "general" /\ r.viewed

\* C26: a conversation that is empty (cleared) becomes non-empty only by a
\* message sent locally or by a record that was not merged before in this
\* session: a record merged before the clear is not appended again.
C26_ClearDurable ==
    [][\A k \in DOMAIN messages :
          (messages[k] = <<>> /\ k \in DOMAIN messages') =>
              \A i \in DOMAIN messages'[k] :
                  \/ messages'[k][i].sent
                  \/ Note(k, messages'[k][i]) \notin dispatched
      ]_vars

\* C27: a poll does not append a channel-tagged record of the local
\* identity to a channel that holds the optimistic copy of the same
\* message: what was sent to a channel stands there once.
C27_NoEchoDuplicate ==
    [][cycle'.user = currentUser =>
          \A k \in DOMAIN messages :
              k \in DOMAIN messages' =>
                  \A j \in DOMAIN Appended(k) :
                      LET e == Appended(k)[j] IN
                      (e.from = currentUser /\ ~IsDirect(e)) =>
                          ~\E i \in DOMAIN messages[k] :
                              /\ messages[k][i].from = e.from
                              /\ messages[k][i].message = e.message
                              /\ messages[k][i].channel = NoTag
                              /\ messages[k][i].sent
      ]_vars

\* C28: when joinChannel(name) completes, a sequence the store holds under
\* name, and its read position, are what they were; an empty sequence and
\* the cursor 0 are written only when name had no sequence.
C28_JoinKeepsMessages ==
    [][\A r \in pending :
          JoinDone(r) =>
              IF r.channel \in DOMAIN messages
              THEN /\ messages'[r.channel] = messages[r.channel]
                   /\ Get(lastReadPositions', r.channel, 0)
                          = Get(lastReadPositions, r.channel, 0)
              ELSE /\ messages'[r.channel] = <<>>
                   /\ lastReadPositions'[r.channel] = 0
      ]_vars

\* C29: the list of joined channels holds no name twice.
C29_NoDuplicateChannels ==
    \A i, j \in DOMAIN channels : i # j => channels[i] # channels[j]

\* entries of seq that a merge stored for a record with msg's sender, body
\* and timestamp
FetchedCopies(seq, msg) ==
    {i \in DOMAIN seq :
        /\ seq[i].from = msg.from /\ seq[i].message = msg.message
        /\ seq[i].time = msg.time
        /\ ~(seq[i].channel = NoTag /\ seq[i].sent)}

\* C30: when the response of one of two overlapping cycles has been merged,
\* each of its records stands at most once as a fetched entry in its
\* conversation and was dispatched at most once, by this merge or by an
\* earlier one; and merging the other response with the same record then
\* changes nothing and dispatches nothing.
C30_DedupUnderOverlap ==
    [][\A u1, u2 \in Users, msg \in Records :
          (InFlightCount >= 2 /\ inflight[u2] > 0 /\ PollApply(u1, <<msg>>)) =>
              LET other == Merge(messages', <<msg>>, u2)
                  key == Target(msg, u1)
              IN  /\ other.store = messages'
                  /\ other.notes = <<>>
                  /\ Len(notified') <= 1
                  /\ \A i \in DOMAIN notified' : notified'[i] \notin dispatched
                  /\ key \in DOMAIN messages' =>
                         Cardinality(FetchedCopies(messages'[key], msg)) <= 1
      ]_vars

\* bob's record has been merged once and dispatched once, the response of
\* an overlapping cycle that carried it again has just been found present,
\* and a further fetch is outstanding
C30_Witness ==
    /\ cycle.user = "alice" /\ cycle.deduped /\ notified = <<>>
    /\ InFlightCount >= 1
    /\ "bob" \in DOMAIN messages /\ Len(messages["bob"]) = 1
    /\ messages["bob"][1].from = "bob"
    /\ Cardinality(dispatched) = 1

====
